---- MODULE Spec2Model ----
(***************************************************************************)
(* Model of the Telegram expense agent: the per-user concurrency/delivery  *)
(* controller (app/telegram/gateway.py) and the agent tool-calling loop    *)
(* (app/agent/loop.py, app/core/runtime.py) with the tool registry         *)
(* (app/tools/registry.py) and the planner (app/llm/router.py) it calls.   *)
(*                                                                         *)
(* The gateway runs on one asyncio event loop: a coroutine runs atomically *)
(* from one await to the next, so every action below is one such segment.  *)
(* One handler slot h stands for one inbound text update; the task created *)
(* by slot h is identified by h as well.                                   *)
(***************************************************************************)
EXTENDS Naturals, Integers, Sequences, FiniteSets, TLC

\* ---------------------------------------------------------------- bounds
\* text updates in a behaviour
MaxMsgs == 3
\* distinct users
NumUsers == 2
\* text updates in a behaviour checked for liveness
MaxLiveMsgs == 2
\* largest configured agent_max_steps
MaxSteps == 2
\* tool calls the planner returns in one step
MaxCalls == 2
\* tool calls the planner returns in one request
MaxTotalCalls == 3

\* tool calls in one request whose reply is compared with its tool results
MaxRows == 2
\* distinct handler functions offered to the registry
NumHandlers == 1
\* updates that reach the gateway while its runtime is being built
NumStarters == 3
\* distinct values of a tool argument
MaxVal == 2
\* requests the runtime handles one after another
MaxRuns == 2
\* append_history calls for one user
MaxAppends == 52

Slots == 1..MaxMsgs
Users == 1..NumUsers
NoUser == 0
NoTask == 0

VARIABLES
    pc,             \* position of on_text_message for each update
    huser,          \* update.effective_user of each update
    user_locks,     \* _user_locks: per user key, FIFO of slots, head holds the lock
    pending_tasks,  \* _pending_tasks: user key -> task (slot) or NoTask
    task,           \* state of the asyncio.Task created by each slot
    callbacks,      \* done-callback attached to the task (add_done_callback)
    dpc,            \* position of _deliver_background_result for each task
    out,            \* messages handed to the transport, per slot and kind
    hist            \* what each update's handler has observed so far

gwvars == <<pc, huser, user_locks, pending_tasks, task, callbacks, dpc, out, hist>>

VARIABLES
    entry,                   \* "handle_message" (AgentRuntime) or "run" (AgentLoopEngine)
    max_steps,               \* settings.agent_max_steps
    lpc,                     \* position of the request in handle_message / the loop
    steps_done,              \* iterations of "for _ in range(max_steps)" completed
    used_tools,
    tool_calls,              \* calls of the current step not yet processed
    messages,                \* the transcript handed to the planner
    last_tool_results,
    failed_call_signatures,
    memory,                  \* context.memory.frequent_categories
    history,                 \* the memory store's history of the user
    reply,                   \* the AgentReply returned, or NoReply
    trace                    \* calls made to the planner, the registry and the store

lpvars == <<entry, max_steps, lpc, steps_done, used_tools, tool_calls, messages,
            last_tool_results, failed_call_signatures, memory, history, reply, trace>>

VARIABLES
    handlers,       \* ToolRegistry._handlers: tool name -> handler or NoHandler
    rg              \* the last operation on the registry and how it ended

rgvars == <<handlers, rg>>

VARIABLES
    runtime,        \* self.runtime: NoRuntime or the instance the builder returned
    runtime_lock,   \* _runtime_lock: FIFO of updates, head holds the lock
    ipc,            \* position of each update in the lazy initialisation
    ikind,          \* the handler of each update: on_text_message or on_photo_message
    built,          \* completed calls of runtime_builder
    used,           \* the runtime each handler went on with
    waited          \* the updates that queued at _runtime_lock

rtvars == <<runtime, runtime_lock, ipc, ikind, built, used, waited>>

VARIABLES
    sig_in,         \* the tool calls handed to _build_call_signature
    sig_out         \* the signatures returned for them

sgvars == <<sig_in, sig_out>>

VARIABLES
    history_map,    \* InMemoryStore.history_map: the stored history of each user
    got             \* the last get_history call and the list it returned

stvars == <<history_map, got>>

vars == <<gwvars, lpvars, rgvars, rtvars, sgvars, stvars>>

\* ------------------------------------------------------------ gateway data
NoOut == [processing |-> 0, reply |-> 0, interim |-> 0, error |-> 0,
          oobReply |-> 0, oobFail |-> 0]

NoHist == [arrivedBusy |-> FALSE, budget |-> "none", rejectedBy |-> NoTask,
           textRejected |-> FALSE, raced |-> FALSE]

\* outcomes of _send_reply: every message accepted; send_message of the text
\* raises; the text is accepted and a later photo/document send raises.
\* The one-call notices (reply_text, the failure notice) are taken as accepted
\* by the transport.
SendOutcomes == {"ok", "fail_text", "fail_image"}

\* outcomes of AgentRuntime.handle_message seen through the task
RunOutcomes == {"result", "exception"}

\* variant: one key shared by all users
user_id_shared(u) == 1

\* user_id = f"tg_{update.effective_user.id}"
user_id(u) == u

\* pending.done()
done(t) == task[t] \in {"result", "exception", "cancelled"}

\* whether the run had completed when the handler stopped waiting for it
Budget(h) == IF done(h) THEN "within" ELSE "expired"

\* variant: wait_for on the bare task cancels it on expiry
wait_for_unshielded(st) == "cancelled"

\* asyncio.wait_for(asyncio.shield(task), timeout): what expiry does to the task
wait_for_expiry(st) == st

\* self._pending_tasks.pop(user_id, None)
pop(k) == [pending_tasks EXCEPT ![k] = NoTask]

\* leaving "async with user_lock"
release(k) == [user_locks EXCEPT ![k] = Tail(@)]

\* the handler's frame is dropped when it returns; what outlives it is how the
\* wait ended and whether the transport refused the reply text; that the run
\* ended while the interim notice was being sent is known until its callback
\* runs
Return(h) == [hist EXCEPT ![h].arrivedBusy = FALSE, ![h].rejectedBy = NoTask]

Bump(h, kind) == [out EXCEPT ![h][kind] = @ + 1]

\* a run of user u is executing
Running(u) == {t \in Slots : huser[t] = u /\ task[t] = "running"}

GwInit ==
    /\ pc = [h \in Slots |-> "idle"]
    /\ huser = [h \in Slots |-> NoUser]
    /\ user_locks = [k \in Users |-> << >>]
    /\ pending_tasks = [k \in Users |-> NoTask]
    /\ task = [h \in Slots |-> "none"]
    /\ callbacks = [h \in Slots |-> FALSE]
    /\ dpc = [h \in Slots |-> "none"]
    /\ out = [h \in Slots |-> NoOut]
    /\ hist = [h \in Slots |-> NoHist]

\* ------------------------------------------------------- on_text_message
\* updates are numbered in the order the application hands them to the handler
Fresh(h) == \A g \in Slots : g < h => pc[g] # "idle"

\* An update without message, effective_user or chat makes the handler return
\* before it touches any state: a stuttering step.

\* user ids are opaque: the first update comes from user 1, and a user not
\* seen before is the next unused one
Known(u) == u = 1 \/ \E g \in Slots : huser[g] = u - 1

\* a text update of user u enters the handler and asks for the user's lock
Arrive(h, u) ==
    /\ pc[h] = "idle"
    /\ Fresh(h)
    /\ Known(u)
    /\ pc' = [pc EXCEPT ![h] = "lock"]
    /\ huser' = [huser EXCEPT ![h] = u]
    /\ user_locks' = [user_locks EXCEPT ![user_id(u)] = Append(@, h)]
    /\ hist' = [hist EXCEPT ![h].arrivedBusy = (Running(u) # {})]
    /\ UNCHANGED <<pending_tasks, task, callbacks, dpc, out>>
    /\ UNCHANGED <<lpvars, rgvars, rtvars, sgvars, stvars>>

\* lock acquired; a pending task that is not done: reply_text is awaited
Reject(h) ==
    LET k == user_id(huser[h])
        pending == pending_tasks[k]
    IN  /\ pc[h] = "lock"
        /\ Head(user_locks[k]) = h
        /\ pending # NoTask /\ ~done(pending)
        /\ pc' = [pc EXCEPT ![h] = "rejecting"]
        /\ hist' = [hist EXCEPT ![h].rejectedBy = pending]
        /\ UNCHANGED <<huser, user_locks, pending_tasks, task, callbacks, dpc, out>>
        /\ UNCHANGED <<lpvars, rgvars, rtvars, sgvars, stvars>>

\* the "previous message still processing" notice is out; return
RejectSent(h) ==
    /\ pc[h] = "rejecting"
    /\ out' = Bump(h, "processing")
    /\ user_locks' = release(user_id(huser[h]))
    /\ pc' = [pc EXCEPT ![h] = "done"]
    /\ hist' = Return(h)
    /\ UNCHANGED <<huser, pending_tasks, task, callbacks, dpc>>
    /\ UNCHANGED <<lpvars, rgvars, rtvars, sgvars, stvars>>

\* lock acquired; no pending task or it is done: create the task, record it,
\* and wait for it under the response budget
Start(h) ==
    LET k == user_id(huser[h])
        pending == pending_tasks[k]
    IN  /\ pc[h] = "lock"
        /\ Head(user_locks[k]) = h
        /\ ~(pending # NoTask /\ ~done(pending))
        /\ task' = [task EXCEPT ![h] = "running"]
        /\ pending_tasks' = [pending_tasks EXCEPT ![k] = h]
        /\ pc' = [pc EXCEPT ![h] = "waiting"]
        /\ UNCHANGED <<huser, user_locks, callbacks, dpc, out, hist>>
        /\ UNCHANGED <<lpvars, rgvars, rtvars, sgvars, stvars>>

\* wait_for returns the reply: _send_reply is awaited
GotReply(h) ==
    /\ pc[h] = "waiting"
    /\ task[h] = "result"
    /\ pc' = [pc EXCEPT ![h] = "sending"]
    /\ hist' = [hist EXCEPT ![h].budget = Budget(h)]
    /\ UNCHANGED <<huser, user_locks, pending_tasks, task, callbacks, dpc, out>>
    /\ UNCHANGED <<lpvars, rgvars, rtvars, sgvars, stvars>>

\* variant: the task's exception is handled like an expired budget
GotException_as_timeout(h) ==
    /\ pc[h] = "waiting"
    /\ task[h] = "exception"
    /\ pc' = [pc EXCEPT ![h] = "interim"]
    /\ hist' = [hist EXCEPT ![h].budget = Budget(h)]
    /\ UNCHANGED <<huser, user_locks, pending_tasks, task, callbacks, dpc, out>>
    /\ UNCHANGED <<lpvars, rgvars, rtvars, sgvars, stvars>>

\* wait_for re-raises the task's exception: except Exception, reply_text awaited
GotException(h) ==
    /\ pc[h] = "waiting"
    /\ task[h] = "exception"
    /\ pc' = [pc EXCEPT ![h] = "erroring"]
    /\ hist' = [hist EXCEPT ![h].budget = Budget(h)]
    /\ UNCHANGED <<huser, user_locks, pending_tasks, task, callbacks, dpc, out>>
    /\ UNCHANGED <<lpvars, rgvars, rtvars, sgvars, stvars>>

\* variant: the timeout branch is taken although the task may be done
Timeout_unguarded(h) ==
    /\ pc[h] = "waiting"
    /\ task[h] # "none"
    /\ pc' = [pc EXCEPT ![h] = "interim"]
    /\ hist' = [hist EXCEPT ![h].budget = Budget(h)]
    /\ UNCHANGED <<huser, user_locks, pending_tasks, task, callbacks, dpc, out>>
    /\ UNCHANGED <<lpvars, rgvars, rtvars, sgvars, stvars>>

\* the budget expires while the task is not done: TimeoutError, the interim
\* reply_text is awaited
Timeout(h) ==
    /\ pc[h] = "waiting"
    /\ task[h] = "running"
    /\ task' = [task EXCEPT ![h] = wait_for_expiry(@)]
    /\ pc' = [pc EXCEPT ![h] = "interim"]
    /\ hist' = [hist EXCEPT ![h].budget = Budget(h)]
    /\ UNCHANGED <<huser, user_locks, pending_tasks, callbacks, dpc, out>>
    /\ UNCHANGED <<lpvars, rgvars, rtvars, sgvars, stvars>>

\* variant: the else-branch returns without the pop
SendReplyDone_no_pop(h, o) ==
    /\ pc[h] = "sending"
    /\ out' = IF o = "fail_text" THEN out ELSE Bump(h, "reply")
    /\ IF o = "ok"
         THEN /\ user_locks' = release(user_id(huser[h]))
              /\ pc' = [pc EXCEPT ![h] = "done"]
              /\ hist' = Return(h)
              /\ UNCHANGED pending_tasks
         ELSE /\ pc' = [pc EXCEPT ![h] = "erroring"]
              /\ hist' = [hist EXCEPT ![h].textRejected = (o = "fail_text")]
              /\ UNCHANGED <<pending_tasks, user_locks>>
    /\ UNCHANGED <<huser, task, callbacks, dpc>>
    /\ UNCHANGED <<lpvars, rgvars, rtvars, sgvars, stvars>>

\* _send_reply in the handler ends: else-branch pops, or except Exception
SendReplyDone(h, o) ==
    /\ pc[h] = "sending"
    /\ out' = IF o = "fail_text" THEN out ELSE Bump(h, "reply")
    /\ IF o = "ok"
         THEN /\ pending_tasks' = pop(user_id(huser[h]))
              /\ user_locks' = release(user_id(huser[h]))
              /\ pc' = [pc EXCEPT ![h] = "done"]
              /\ hist' = Return(h)
         ELSE /\ pc' = [pc EXCEPT ![h] = "erroring"]
              /\ hist' = [hist EXCEPT ![h].textRejected = (o = "fail_text")]
              /\ UNCHANGED <<pending_tasks, user_locks>>
    /\ UNCHANGED <<huser, task, callbacks, dpc>>
    /\ UNCHANGED <<lpvars, rgvars, rtvars, sgvars, stvars>>

\* variant: the except branch returns without the pop
ErrorSent_no_pop(h) ==
    /\ pc[h] = "erroring"
    /\ out' = Bump(h, "error")
    /\ user_locks' = release(user_id(huser[h]))
    /\ pc' = [pc EXCEPT ![h] = "done"]
    /\ hist' = Return(h)
    /\ UNCHANGED <<huser, pending_tasks, task, callbacks, dpc>>
    /\ UNCHANGED <<lpvars, rgvars, rtvars, sgvars, stvars>>

\* the generic error notice is out; pop and return
ErrorSent(h) ==
    /\ pc[h] = "erroring"
    /\ out' = Bump(h, "error")
    /\ pending_tasks' = pop(user_id(huser[h]))
    /\ user_locks' = release(user_id(huser[h]))
    /\ pc' = [pc EXCEPT ![h] = "done"]
    /\ hist' = Return(h)
    /\ UNCHANGED <<huser, task, callbacks, dpc>>
    /\ UNCHANGED <<lpvars, rgvars, rtvars, sgvars, stvars>>

\* variant: a callback added to a task that is already done never runs
add_done_callback_lost(h) == dpc[h]

\* task.add_done_callback: the callback of a task that is already done is
\* scheduled at once (call_soon)
add_done_callback(h) == IF done(h) THEN "scheduled" ELSE dpc[h]

\* variant: the done-callback is never attached
InterimSent_no_callback(h) ==
    /\ pc[h] = "interim"
    /\ out' = Bump(h, "interim")
    /\ user_locks' = release(user_id(huser[h]))
    /\ pc' = [pc EXCEPT ![h] = "done"]
    /\ hist' = Return(h)
    /\ UNCHANGED <<huser, pending_tasks, task, callbacks, dpc>>
    /\ UNCHANGED <<lpvars, rgvars, rtvars, sgvars, stvars>>

\* the interim notice is out; add_done_callback (a task that is already done
\* gets its callback scheduled at once); return
InterimSent(h) ==
    /\ pc[h] = "interim"
    /\ out' = Bump(h, "interim")
    /\ callbacks' = [callbacks EXCEPT ![h] = TRUE]
    /\ dpc' = [dpc EXCEPT ![h] = add_done_callback(h)]
    /\ user_locks' = release(user_id(huser[h]))
    /\ pc' = [pc EXCEPT ![h] = "done"]
    /\ hist' = Return(h)
    /\ UNCHANGED <<huser, pending_tasks, task>>
    /\ UNCHANGED <<lpvars, rgvars, rtvars, sgvars, stvars>>

\* ------------------------------------------------ AgentRuntime.handle_message
\* variant: the delivery is scheduled as soon as the budget has expired
TaskEnds_unattached(h, o) ==
    /\ task[h] = "running"
    /\ task' = [task EXCEPT ![h] = o]
    /\ dpc' = [dpc EXCEPT ![h] = IF callbacks[h] \/ pc[h] = "interim" THEN "scheduled" ELSE @]
    /\ hist' = [hist EXCEPT ![h].raced = (pc[h] = "interim")]
    /\ UNCHANGED <<pc, huser, user_locks, pending_tasks, callbacks, out>>
    /\ UNCHANGED <<lpvars, rgvars, rtvars, sgvars, stvars>>

\* the task finishes; attached done-callbacks are scheduled
TaskEnds(h, o) ==
    /\ task[h] = "running"
    /\ task' = [task EXCEPT ![h] = o]
    /\ dpc' = [dpc EXCEPT ![h] = IF callbacks[h] THEN "scheduled" ELSE @]
    /\ hist' = [hist EXCEPT ![h].raced = (pc[h] = "interim")]
    /\ UNCHANGED <<pc, huser, user_locks, pending_tasks, callbacks, out>>
    /\ UNCHANGED <<lpvars, rgvars, rtvars, sgvars, stvars>>

\* --------------------------------------------- _deliver_background_result
\* variant: no except branch, the task's exception leaves the coroutine
DeliverStart_no_except(h) ==
    /\ dpc[h] = "scheduled"
    /\ IF task[h] # "result"
         THEN /\ dpc' = [dpc EXCEPT ![h] = "raised"]
              /\ pending_tasks' = pop(user_id(huser[h]))
         ELSE /\ dpc' = [dpc EXCEPT ![h] = "sending"]
              /\ UNCHANGED pending_tasks
    /\ hist' = [hist EXCEPT ![h].raced = FALSE]
    /\ UNCHANGED <<pc, huser, user_locks, task, callbacks, out>>
    /\ UNCHANGED <<lpvars, rgvars, rtvars, sgvars, stvars>>

\* the callback's task starts: task.result() returns (and _send_reply is
\* awaited), raises an Exception (the failure notice is awaited), or raises
\* CancelledError (only finally runs and the coroutine raises)
DeliverStart(h) ==
    /\ dpc[h] = "scheduled"
    /\ IF task[h] = "cancelled"
         THEN /\ dpc' = [dpc EXCEPT ![h] = "raised"]
              /\ pending_tasks' = pop(user_id(huser[h]))
         ELSE /\ dpc' = [dpc EXCEPT ![h] =
                           IF task[h] = "result" THEN "sending" ELSE "failing"]
              /\ UNCHANGED pending_tasks
    /\ hist' = [hist EXCEPT ![h].raced = FALSE]
    /\ UNCHANGED <<pc, huser, user_locks, task, callbacks, out>>
    /\ UNCHANGED <<lpvars, rgvars, rtvars, sgvars, stvars>>

\* _send_reply in the background ends: finally pops, or except Exception
DeliverSendDone(h, o) ==
    /\ dpc[h] = "sending"
    /\ out' = IF o = "fail_text" THEN out ELSE Bump(h, "oobReply")
    /\ hist' = [hist EXCEPT ![h].textRejected = (o = "fail_text")]
    /\ IF o = "ok"
         THEN /\ pending_tasks' = pop(user_id(huser[h]))
              /\ dpc' = [dpc EXCEPT ![h] = "done"]
         ELSE /\ dpc' = [dpc EXCEPT ![h] = "failing"]
              /\ UNCHANGED pending_tasks
    /\ UNCHANGED <<pc, huser, user_locks, task, callbacks>>
    /\ UNCHANGED <<lpvars, rgvars, rtvars, sgvars, stvars>>

\* the generic failure notice is out (bot.send_message); finally pops
DeliverFailSent(h) ==
    /\ dpc[h] = "failing"
    /\ out' = Bump(h, "oobFail")
    /\ pending_tasks' = pop(user_id(huser[h]))
    /\ dpc' = [dpc EXCEPT ![h] = "done"]
    /\ UNCHANGED <<pc, huser, user_locks, task, callbacks, hist>>
    /\ UNCHANGED <<lpvars, rgvars, rtvars, sgvars, stvars>>

\* --------------------------------------------------------- specification
Progress(h, outcomes) ==
    \/ Reject(h)
    \/ RejectSent(h)
    \/ Start(h)
    \/ GotReply(h)
    \/ GotException(h)
    \/ \E o \in outcomes : SendReplyDone(h, o)
    \/ ErrorSent(h)
    \/ InterimSent(h)
    \/ DeliverStart(h)
    \/ \E o \in outcomes : DeliverSendDone(h, o)
    \/ DeliverFailSent(h)

\* ================================================================ tool registry
\* TOOL_DEFINITIONS: the declared tool names the model distinguishes, and a
\* name that has no definition
Declared ==
    {"record_expenses_batch", "record_expense", "visualize_expenses", "analyze_expenses",
     "google_search", "capture_website_screenshot", "get_weather"}

Undeclared == {"deep_web_search"}

ToolNames == Declared \cup Undeclared

NoHandler == 0
Handlers == 1..NumHandlers

\* how an invoked handler ends: a result with success, a result without,
\* or an exception (get_weather: raise_for_status, a refused connection)
HandlerOutcomes == {"success", "failure", "raises"}

NoOp == [op |-> "none", name |-> "", outcome |-> "none", result |-> "none", invoked |-> NoHandler]

\* ToolRegistry(definitions): no handler yet
RgInit ==
    /\ handlers = [n \in ToolNames |-> NoHandler]
    /\ rg = NoOp

\* the registry Container.build_runtime hands to the runtime: every declared
\* tool has its handler
RgBooted ==
    /\ handlers = [n \in ToolNames |-> IF n \in Declared THEN 1 ELSE NoHandler]
    /\ rg = NoOp

\* tool_name in self._definitions
declared_any(name) == TRUE

declared(name) == name \in Declared

\* register_handler: ValueError for a name without a definition
register_handler(name, handler) ==
    /\ IF declared(name)
         THEN /\ handlers' = [handlers EXCEPT ![name] = handler]
              /\ rg' = [op |-> "register", name |-> name, outcome |-> "returned",
                        result |-> "none", invoked |-> NoHandler]
         ELSE /\ handlers' = handlers
              /\ rg' = [op |-> "register", name |-> name, outcome |-> "ValueError",
                        result |-> "none", invoked |-> NoHandler]
    /\ UNCHANGED <<gwvars, lpvars, rtvars, sgvars, stvars>>

\* ToolRegistry.call: what the caller gets for a name when the handler, if
\* one is invoked, ends as o; "not_registered" is the result
\* MCPToolResult(success=False, message="Tool handler not registered: ...")
registry_call_unguarded(h, name, o) ==
    IF h[name] = NoHandler
      THEN [outcome |-> "raised", result |-> "none", invoked |-> NoHandler]
      ELSE [outcome |-> IF o = "raises" THEN "raised" ELSE "returned",
            result |-> IF o = "raises" THEN "none" ELSE o, invoked |-> h[name]]

registry_call(h, name, o) ==
    IF h[name] = NoHandler
      THEN [outcome |-> "returned", result |-> "not_registered", invoked |-> NoHandler]
      ELSE [outcome |-> IF o = "raises" THEN "raised" ELSE "returned",
            result |-> IF o = "raises" THEN "none" ELSE o, invoked |-> h[name]]

Call(name, o) ==
    LET r == registry_call(handlers, name, o)
    IN  /\ rg' = [op |-> "call", name |-> name, outcome |-> r.outcome,
                  result |-> r.result, invoked |-> r.invoked]
        /\ UNCHANGED handlers
        /\ UNCHANGED <<gwvars, lpvars, rtvars, sgvars, stvars>>

RgNext ==
    \/ \E name \in ToolNames, handler \in Handlers : register_handler(name, handler)
    \/ \E name \in ToolNames, o \in HandlerOutcomes : Call(name, o)

\* ================================================================ agent loop
\* Texts are tuples of characters; "_" is a whitespace character and the
\* fixed texts of the code are one-element tuples of their own.
Greeting == <<"GREETING">>
TooManySteps == <<"TOO_MANY_STEPS">>
NoReply == [text |-> <<"NONE">>, image_paths |-> <<"NONE">>]

\* str.strip()
RECURSIVE lstrip(_)
lstrip(s) == IF s # << >> /\ Head(s) = "_" THEN lstrip(Tail(s)) ELSE s

RECURSIVE rstrip(_)
rstrip(s) == IF s # << >> /\ s[Len(s)] = "_" THEN rstrip(SubSeq(s, 1, Len(s) - 1)) ELSE s

strip(s) == rstrip(lstrip(s))

\* message.content of the model's answer (None reads as the empty text)
RawContents == {<< >>, <<"a">>, <<"_", "a">>, <<"_">>}

\* Tool arguments are a dict, written as the tuple of its items in insertion
\* order; Keys lists the keys in sorted order.
Keys == <<"a", "b">>

HasKey(args, key) == \E j \in 1..Len(args) : args[j].k = key

\* dict.get(key, 0)
Get_missing(args, key) == 0

Get(args, key) ==
    IF HasKey(args, key) THEN args[CHOOSE j \in 1..Len(args) : args[j].k = key].v ELSE 0

\* json.dumps(tool_args, ensure_ascii=False, sort_keys=True): the items in key order
dumps_unsorted(args) == args

dumps(args) ==
    LET present == SelectSeq(Keys, LAMBDA key : HasKey(args, key))
    IN  [j \in 1..Len(present) |-> [k |-> present[j], v |-> Get(args, present[j])]]

\* call.function.arguments as the provider sends it: JSON text of a dict, with
\* or without extra white space, text that is not JSON, or nothing
Raw(pad, items) == [kind |-> "json", pad |-> pad, items |-> items]

GarbageRaw == [kind |-> "garbage", pad |-> FALSE, items |-> << >>]

EmptyRaw == [kind |-> "empty", pad |-> FALSE, items |-> << >>]

\* json.dumps(args, ensure_ascii=False): the items in insertion order, no padding
json_dumps(args) == Raw(FALSE, args)

\* json.loads(raw_arguments), {} when it raises
loads(raw) == IF raw.kind = "json" THEN raw.items ELSE << >>

\* next_step: one tool call of the completion becomes id, name, the parsed
\* arguments and the raw text ("{}" when the provider sent none)
parse_call(id, name, raw) ==
    LET raw_arguments == IF raw.kind = "empty" THEN json_dumps(<< >>) ELSE raw
    IN  [id |-> id, name |-> name, arguments |-> loads(raw_arguments),
         raw_arguments |-> raw_arguments]

\* the tool calls a planner step can carry: id, name, arguments, raw arguments
PlannerCalls ==
    { parse_call("c1", "record_expense", Raw(TRUE, <<[k |-> "a", v |-> 1], [k |-> "b", v |-> 1]>>)),
      parse_call("c2", "record_expense", Raw(FALSE, <<[k |-> "b", v |-> 1], [k |-> "a", v |-> 1]>>)),
      parse_call("c3", "record_expense", Raw(FALSE, <<[k |-> "a", v |-> 1]>>)),
      parse_call("c4", "visualize_expenses",
                 Raw(TRUE, <<[k |-> "a", v |-> 1], [k |-> "b", v |-> 1]>>)) }

CallLists == UNION { [1..n -> PlannerCalls] : n \in 0..MaxCalls }

\* what the model provider does with a request: a completion with a message,
\* a completion without choices, an APIError, or an answer that is not a
\* completion (its attributes are missing, so reading them raises
\* AttributeError); "no_client" is a router without an API key
ProviderOutcomes == {"answer", "no_choices", "APIError", "malformed", "no_client"}

\* _heuristic_step: a fixed text or one fixed call, chosen by the words of the
\* last message of the transcript
HeuristicKinds == {"viz", "none"}

heuristic_step(kind) ==
    IF kind = "viz"
      THEN [content |-> << >>,
            tool_calls |-> <<[id |-> "heuristic-viz", name |-> "visualize_expenses",
                              arguments |-> <<[k |-> "a", v |-> 1]>>,
                              raw_arguments |-> json_dumps(<<[k |-> "a", v |-> 1]>>)]>>]
      ELSE [content |-> <<"HERE">>, tool_calls |-> << >>]

\* except APIError: every other exception leaves next_step and
\* summarize_after_tools
absorbed(o) == o # "malformed"

\* LLMRouter.next_step: the step returned for a provider outcome
next_step(o, raw, calls, kind) ==
    IF o = "answer" THEN [content |-> strip(raw), tool_calls |-> calls]
    ELSE IF o = "no_choices" THEN [content |-> << >>, tool_calls |-> << >>]
    ELSE heuristic_step(kind)

\* the steps next_step can return over given contents and call lists; an
\* answer that carries tool calls has no text of its own
PlannerSteps(raws, lists) ==
    {next_step("answer", raw, << >>, "none") : raw \in raws}
      \cup {next_step("answer", << >>, calls, "none") : calls \in lists}
      \cup {next_step("no_choices", << >>, << >>, "none")}
      \cup {next_step(o, << >>, << >>, kind) : o \in {"APIError", "no_client"},
                                               kind \in HeuristicKinds}

\* LLMRouter.summarize_after_tools: the stripped content, possibly empty, or a
\* fixed text
summarize_after_tools(o, raw) == IF o = "answer" THEN strip(raw) ELSE <<"DONE">>

Summaries ==
    {summarize_after_tools(o, raw) : o \in ProviderOutcomes \ {"malformed"}, raw \in RawContents}

NoData == [category |-> "", paths |-> << >>, fields |-> << >>]

\* result.data of a successful handler: the category, the chart or screenshot
\* paths and the fields the summary renders
Data(c) ==
    [category |-> IF c.name = "record_expense"
                    THEN (IF HasKey(c.arguments, "b") THEN "food" ELSE "rent") ELSE "",
     paths |-> IF c.name = "visualize_expenses"
                 THEN (IF Get(c.arguments, "a") = 1 THEN <<"x.png", "y.png", "x.png">>
                       ELSE <<"y.png", "", "z.png">>)
               ELSE IF c.name = "capture_website_screenshot"
                 THEN (IF Get(c.arguments, "a") = 1 THEN <<"x.png">> ELSE <<"z.png">>)
               ELSE << >>,
     fields |-> dumps(c.arguments)]

\* the MCPToolResult tool_registry.call returns
tool_result(c, res) ==
    IF res = "success" THEN [success |-> TRUE, message |-> "ok", data |-> Data(c)]
    ELSE [success |-> FALSE, message |-> res, data |-> NoData]

\* MCPToolResult(success=False, message="repeated failing call ...", data={})
Suppressed == [success |-> FALSE, message |-> "repeated", data |-> NoData]

\* _build_call_signature
call_signature_name_only(c) == <<c.name>>

call_signature(c) == <<c.name, dumps(c.arguments)>>

\* for _ in range(max_steps): another iteration is due
more_steps_off_by_one(n) == n <= max_steps

more_steps(n) == n < max_steps

\* _collect_image_paths: paths of visualize_expenses charts and of
\* capture_website_screenshot, each kept at its first occurrence
RECURSIVE unique(_, _)
unique(paths, seen) ==
    IF paths = << >> THEN << >>
    ELSE IF Head(paths) \in seen THEN unique(Tail(paths), seen)
    ELSE <<Head(paths)>> \o unique(Tail(paths), seen \cup {Head(paths)})

\* "if path": an empty path is skipped
RECURSIVE all_paths(_)
all_paths(rows) ==
    IF rows = << >> THEN << >>
    ELSE (IF Head(rows).tool_name \in {"visualize_expenses", "capture_website_screenshot"}
            THEN SelectSeq(Head(rows).data.paths, LAMBDA p : p # "") ELSE << >>)
           \o all_paths(Tail(rows))

collect_image_paths_no_dedup(rows) == all_paths(rows)

collect_image_paths(rows) == unique(all_paths(rows), {})

\* _fallback_tool_summary: the template of the first tool, in priority order,
\* that has a successful row, rendered from the last such row
SummaryOrder_swapped(e) ==
    <<"record_expense", "record_expenses_batch", "visualize_expenses",
      "analyze_expenses", "google_search", "capture_website_screenshot">>

SummaryOrder(e) ==
    IF e = "run"
      THEN <<"record_expenses_batch", "record_expense", "visualize_expenses",
             "analyze_expenses", "deep_web_search", "google_search",
             "capture_website_screenshot">>
      ELSE <<"record_expenses_batch", "record_expense", "visualize_expenses",
             "analyze_expenses", "google_search", "capture_website_screenshot">>

LastRow(rows, name) ==
    LET idx == {j \in 1..Len(rows) : rows[j].success /\ rows[j].tool_name = name}
    IN  rows[CHOOSE j \in idx : \A k \in idx : k <= j]

fallback_tool_summary(e, rows) ==
    LET order == SummaryOrder(e)
        hits == {n \in 1..Len(order) :
                   \E j \in 1..Len(rows) : rows[j].success /\ rows[j].tool_name = order[n]}
    IN  IF rows = << >> THEN <<"DONE_EMPTY">>
        ELSE IF \A j \in 1..Len(rows) : ~rows[j].success THEN <<"TOOLS_FAILED">>
        ELSE IF hits = {} THEN <<"DONE">>
        ELSE LET n == CHOOSE m \in hits : \A k \in hits : m <= k
             IN  <<order[n], LastRow(rows, order[n]).data>>

\* AgentReply(text=content or greeting): image_paths defaults to the empty list
direct_reply_raw(content) == [text |-> content, image_paths |-> << >>]

direct_reply(content) ==
    [text |-> IF content = << >> THEN Greeting ELSE content, image_paths |-> << >>]

tools_reply_no_fallback(e, text, rows) ==
    [text |-> text, image_paths |-> collect_image_paths(rows)]

tools_reply(e, text, rows) ==
    [text |-> IF text = << >> THEN fallback_tool_summary(e, rows) ELSE text,
     image_paths |-> collect_image_paths(rows)]

\* the reply after the for loop: the summary of the collected results, or the
\* notice when nothing was collected
exhausted_reply_notice_only(e, rows) == [text |-> TooManySteps, image_paths |-> << >>]

exhausted_reply(e, rows) ==
    IF rows # << >>
      THEN [text |-> fallback_tool_summary(e, rows), image_paths |-> collect_image_paths(rows)]
      ELSE [text |-> TooManySteps, image_paths |-> << >>]

\* InMemoryStore.append_history keeps the last 50 entries
HistoryCap == 50

append_history(h, role, content) ==
    LET all == Append(h, [role |-> role, content |-> content])
    IN  IF Len(all) > HistoryCap THEN SubSeq(all, Len(all) - HistoryCap + 1, Len(all)) ELSE all

\* the assistant message of a step: its tool_calls carry the ids of the calls
raw_arguments_reserialized(c) == json_dumps(c.arguments)

\* tool_call.get("raw_arguments", json.dumps(tool_args, ensure_ascii=False))
raw_arguments(c) ==
    IF "raw_arguments" \in DOMAIN c THEN c.raw_arguments ELSE json_dumps(c.arguments)

\* assistant_tool_calls: id, function name and raw arguments of each call
assistant_tool_calls(calls) ==
    [j \in 1..Len(calls) |->
       [id |-> calls[j].id, name |-> calls[j].name, arguments |-> raw_arguments(calls[j])]]

assistant_message_no_calls(step) ==
    [role |-> "assistant", content |-> strip(step.content), ids |-> << >>,
     tool_calls |-> << >>]

assistant_message(step) ==
    [role |-> "assistant", content |-> strip(step.content),
     ids |-> [j \in 1..Len(step.tool_calls) |-> step.tool_calls[j].id],
     tool_calls |-> assistant_tool_calls(step.tool_calls)]

\* the tool message of a processed call: tool_call_id and the result as JSON
tool_message(c, result) ==
    [role |-> "tool", content |-> <<result.success, result.message>>, ids |-> <<c.id>>]

\* steps: what next_step returned; summarize, summary: calls of
\* summarize_after_tools and the last text it returned; dispatched: calls
\* handed to the registry; calls: every processed call with how it was
\* answered; saves: calls of save_memory; store: the calls of the memory
\* store in the order they are made; seen: the transcript handed to each
\* next_step that returned; run: the number of the request;
\* prior_failed, prior_rows: the signatures that failed and the number of
\* results recorded in the requests before it
NoTrace == [steps |-> << >>, summarize |-> 0, summary |-> <<"NONE">>, dispatched |-> << >>,
            calls |-> << >>, saves |-> 0, store |-> << >>,
            run |-> 1, prior_failed |-> {}, prior_rows |-> 0, seen |-> << >>]

\* a request not yet received
LpIdle ==
    /\ entry = "handle_message"
    /\ max_steps = 0
    /\ lpc = "idle"
    /\ steps_done = 0
    /\ used_tools = FALSE
    /\ tool_calls = << >>
    /\ messages = << >>
    /\ last_tool_results = << >>
    /\ failed_call_signatures = {}
    /\ memory = << >>
    /\ history = << >>
    /\ reply = NoReply
    /\ trace = NoTrace

\* one request, entering through AgentRuntime.handle_message or through
\* AgentLoopEngine.run, under some configured step bound
LpInit ==
    /\ entry \in {"handle_message", "run"}
    /\ max_steps \in 0..MaxSteps
    /\ lpc = "start"
    /\ steps_done = 0
    /\ used_tools = FALSE
    /\ tool_calls = << >>
    /\ messages = << >>
    /\ last_tool_results = << >>
    /\ failed_call_signatures = {}
    /\ memory = << >>
    /\ history = << >>
    /\ reply = NoReply
    /\ trace = NoTrace

\* handle_message appends the user text to the history; both loops seed the
\* transcript with the system and the user message
Begin ==
    /\ lpc = "start"
    /\ history' = IF entry = "handle_message"
                    THEN append_history(history, "user", <<"text">>) ELSE history
    /\ messages' = <<[role |-> "system", content |-> <<"prompt">>, ids |-> << >>],
                     [role |-> "user", content |-> <<"text">>, ids |-> << >>]>>
    /\ trace' = IF entry = "handle_message"
                  THEN [trace EXCEPT !.store = @ \o <<"get_memory", "get_history", "append_user">>]
                  ELSE trace
    /\ lpc' = "planning"
    /\ UNCHANGED <<entry, max_steps, steps_done, used_tools, tool_calls, last_tool_results,
                   failed_call_signatures, memory, reply>>
    /\ UNCHANGED <<gwvars, rgvars, rtvars, sgvars, stvars>>

\* one planner step that carries tool calls: the assistant message is
\* appended; cap bounds the calls of the request
PlanTools_new_transcript(step, cap) ==
    /\ lpc = "planning"
    /\ more_steps(steps_done)
    /\ step.tool_calls # << >>
    /\ Len(last_tool_results) + Len(step.tool_calls) <= cap
    /\ trace' = [trace EXCEPT !.steps = Append(@, step), !.seen = Append(@, messages)]
    /\ used_tools' = TRUE
    /\ messages' = <<assistant_message(step)>>
    /\ tool_calls' = step.tool_calls
    /\ lpc' = "dispatching"
    /\ UNCHANGED <<entry, max_steps, steps_done, last_tool_results,
                   failed_call_signatures, memory, history, reply>>
    /\ UNCHANGED <<gwvars, rgvars, rtvars, sgvars, stvars>>

PlanTools(step, cap) ==
    /\ lpc = "planning"
    /\ more_steps(steps_done)
    /\ step.tool_calls # << >>
    /\ Len(last_tool_results) + Len(step.tool_calls) <= cap
    /\ trace' = [trace EXCEPT !.steps = Append(@, step), !.seen = Append(@, messages)]
    /\ used_tools' = TRUE
    /\ messages' = Append(messages, assistant_message(step))
    /\ tool_calls' = step.tool_calls
    /\ lpc' = "dispatching"
    /\ UNCHANGED <<entry, max_steps, steps_done, last_tool_results,
                   failed_call_signatures, memory, history, reply>>
    /\ UNCHANGED <<gwvars, rgvars, rtvars, sgvars, stvars>>

\* one planner step without tool calls and no tool used so far: direct reply
PlanDirect(step) ==
    /\ lpc = "planning"
    /\ more_steps(steps_done)
    /\ step.tool_calls = << >>
    /\ ~used_tools
    /\ trace' = [trace EXCEPT !.steps = Append(@, step), !.seen = Append(@, messages)]
    /\ reply' = direct_reply(strip(step.content))
    /\ lpc' = "loop_returned"
    /\ UNCHANGED <<entry, max_steps, steps_done, used_tools, tool_calls, messages,
                   last_tool_results, failed_call_signatures, memory, history>>
    /\ UNCHANGED <<gwvars, rgvars, rtvars, sgvars, stvars>>

\* one planner step without tool calls after tools were used: summarize
PlanFinal(step) ==
    /\ lpc = "planning"
    /\ more_steps(steps_done)
    /\ step.tool_calls = << >>
    /\ used_tools
    /\ trace' = [trace EXCEPT !.steps = Append(@, step), !.seen = Append(@, messages)]
    /\ lpc' = "summarizing"
    /\ UNCHANGED <<entry, max_steps, steps_done, used_tools, tool_calls, messages,
                   last_tool_results, failed_call_signatures, memory, history, reply>>
    /\ UNCHANGED <<gwvars, rgvars, rtvars, sgvars, stvars>>

\* next_step leaves with an exception the router does not catch: the loop has
\* no handler for it either, the request ends with that exception
PlanRaises(o) ==
    /\ lpc = "planning"
    /\ more_steps(steps_done)
    /\ ~absorbed(o)
    /\ lpc' = "planner_raised"
    /\ UNCHANGED <<entry, max_steps, steps_done, used_tools, tool_calls, messages,
                   last_tool_results, failed_call_signatures, memory, history, reply, trace>>
    /\ UNCHANGED <<gwvars, rgvars, rtvars, sgvars, stvars>>

\* summarize_after_tools returns; the summary or the fallback is the reply
Summarize(summary) ==
    /\ lpc = "summarizing"
    /\ trace' = [trace EXCEPT !.summarize = @ + 1, !.summary = summary]
    /\ reply' = tools_reply(entry, summary, last_tool_results)
    /\ lpc' = "loop_returned"
    /\ UNCHANGED <<entry, max_steps, steps_done, used_tools, tool_calls, messages,
                   last_tool_results, failed_call_signatures, memory, history>>
    /\ UNCHANGED <<gwvars, rgvars, rtvars, sgvars, stvars>>

\* summarize_after_tools leaves with an exception the router does not catch
SummarizeRaises(o) ==
    /\ lpc = "summarizing"
    /\ ~absorbed(o)
    /\ trace' = [trace EXCEPT !.summarize = @ + 1]
    /\ lpc' = "planner_raised"
    /\ UNCHANGED <<entry, max_steps, steps_done, used_tools, tool_calls, messages,
                   last_tool_results, failed_call_signatures, memory, history, reply>>
    /\ UNCHANGED <<gwvars, rgvars, rtvars, sgvars, stvars>>

\* _update_memory: frequent_categories gains the category of a successful
\* result unless it is empty or already there
update_memory_unchecked(mem, result) ==
    IF result.success /\ result.data.category # ""
      THEN Append(mem, result.data.category) ELSE mem

update_memory(mem, result) ==
    IF result.success /\ result.data.category # ""
         /\ \A j \in 1..Len(mem) : mem[j] # result.data.category
      THEN Append(mem, result.data.category) ELSE mem

\* what follows a processed call: result row, tool message, memory, next call
Record(c, result, via) ==
    /\ last_tool_results' = Append(last_tool_results,
                                   [tool_name |-> c.name, success |-> result.success,
                                    message |-> result.message, data |-> result.data])
    /\ messages' = Append(messages, tool_message(c, result))
    /\ memory' = update_memory(memory, result)
    /\ trace' = [trace EXCEPT !.saves = @ + 1,
                              !.store = Append(@, "save_memory"),
                              !.dispatched = IF via = "registry" THEN Append(@, c) ELSE @,
                              !.calls = Append(@, [call |-> c, via |-> via,
                                                   outcome |-> IF result.success THEN "success"
                                                               ELSE "failure"])]
    /\ tool_calls' = Tail(tool_calls)
    /\ steps_done' = IF Tail(tool_calls) = << >> THEN steps_done + 1 ELSE steps_done
    /\ lpc' = IF Tail(tool_calls) = << >> THEN "planning" ELSE "dispatching"
    /\ UNCHANGED <<entry, max_steps, used_tools, history, reply>>

\* AgentLoopEngine.run only: the signature failed before, nothing is dispatched
Suppress_unrecorded ==
    /\ lpc = "dispatching"
    /\ entry = "run"
    /\ call_signature(Head(tool_calls)) \in failed_call_signatures
    /\ tool_calls' = Tail(tool_calls)
    /\ steps_done' = IF Tail(tool_calls) = << >> THEN steps_done + 1 ELSE steps_done
    /\ lpc' = IF Tail(tool_calls) = << >> THEN "planning" ELSE "dispatching"
    /\ trace' = [trace EXCEPT !.calls = Append(@, [call |-> Head(tool_calls), via |-> "suppressed",
                                                   outcome |-> "failure"])]
    /\ UNCHANGED <<entry, max_steps, used_tools, messages, last_tool_results,
                   failed_call_signatures, memory, history, reply>>
    /\ UNCHANGED <<gwvars, rgvars, rtvars, sgvars, stvars>>

Suppress ==
    /\ lpc = "dispatching"
    /\ entry = "run"
    /\ call_signature(Head(tool_calls)) \in failed_call_signatures
    /\ Record(Head(tool_calls), Suppressed, "suppressed")
    /\ UNCHANGED failed_call_signatures
    /\ UNCHANGED <<gwvars, rgvars, rtvars, sgvars, stvars>>

\* the call goes to the registry (in AgentLoopEngine.run: unless suppressed)
ToRegistry_always == TRUE

ToRegistry == entry = "run" => call_signature(Head(tool_calls)) \notin failed_call_signatures

\* tool_registry.call returns a result
Dispatch_marks_every_call(result) ==
    /\ ToRegistry
    /\ failed_call_signatures' =
         IF entry = "run"
           THEN failed_call_signatures \cup {call_signature(Head(tool_calls))}
           ELSE failed_call_signatures
    /\ Record(Head(tool_calls), result, "registry")
    /\ UNCHANGED <<gwvars, rgvars, rtvars, sgvars, stvars>>

Dispatch(result) ==
    /\ ToRegistry
    /\ failed_call_signatures' =
         IF entry = "run" /\ ~result.success
           THEN failed_call_signatures \cup {call_signature(Head(tool_calls))}
           ELSE failed_call_signatures
    /\ Record(Head(tool_calls), result, "registry")
    /\ UNCHANGED <<gwvars, rgvars, rtvars, sgvars, stvars>>

DispatchCall ==
    /\ lpc = "dispatching"
    /\ \E o \in HandlerOutcomes :
         LET r == registry_call(handlers, Head(tool_calls).name, o)
         IN  /\ r.outcome = "returned"
             /\ Dispatch(tool_result(Head(tool_calls), r.result))

\* tool_registry.call raises what the handler raised: neither loop catches
\* it, the request ends with that exception
DispatchRaises ==
    /\ lpc = "dispatching"
    /\ ToRegistry
    /\ \E o \in HandlerOutcomes :
         registry_call(handlers, Head(tool_calls).name, o).outcome = "raised"
    /\ trace' = [trace EXCEPT !.dispatched = Append(@, Head(tool_calls)),
                              !.calls = Append(@, [call |-> Head(tool_calls),
                                                   via |-> "registry", outcome |-> "raised"])]
    /\ lpc' = "tool_raised"
    /\ UNCHANGED <<entry, max_steps, steps_done, used_tools, tool_calls, messages,
                   last_tool_results, failed_call_signatures, memory, history, reply>>
    /\ UNCHANGED <<gwvars, rgvars, rtvars, sgvars, stvars>>

\* the for loop is exhausted
Exhausted ==
    /\ lpc = "planning"
    /\ ~more_steps(steps_done)
    /\ reply' = exhausted_reply(entry, last_tool_results)
    /\ lpc' = "loop_returned"
    /\ UNCHANGED <<entry, max_steps, steps_done, used_tools, tool_calls, messages,
                   last_tool_results, failed_call_signatures, memory, history, trace>>
    /\ UNCHANGED <<gwvars, rgvars, rtvars, sgvars, stvars>>

\* handle_message appends the reply text to the history and returns the reply
Finish_reply_not_stored ==
    /\ lpc = "loop_returned"
    /\ lpc' = "returned"
    /\ UNCHANGED <<entry, max_steps, steps_done, used_tools, tool_calls, messages,
                   last_tool_results, failed_call_signatures, memory, history, reply, trace>>
    /\ UNCHANGED <<gwvars, rgvars, rtvars, sgvars, stvars>>

Finish ==
    /\ lpc = "loop_returned"
    /\ history' = IF entry = "handle_message"
                    THEN append_history(history, "assistant", reply.text) ELSE history
    /\ trace' = IF entry = "handle_message"
                  THEN [trace EXCEPT !.store = Append(@, "append_assistant")] ELSE trace
    /\ lpc' = "returned"
    /\ UNCHANGED <<entry, max_steps, steps_done, used_tools, tool_calls, messages,
                   last_tool_results, failed_call_signatures, memory, reply>>
    /\ UNCHANGED <<gwvars, rgvars, rtvars, sgvars, stvars>>

\* the failed-signature set a new call of run starts with
fresh_failed_kept(old) == old

fresh_failed(old) == {}

\* the request is over (returned or left with an exception) and the next one
\* enters handle_message or run, for the same user or for another one: the
\* locals of the loop are created anew, the store keeps what was saved
NextRequest(e, n, same) ==
    /\ lpc \in {"returned", "planner_raised", "tool_raised"}
    /\ trace.run < MaxRuns
    /\ entry' = e
    /\ max_steps' = n
    /\ lpc' = "start"
    /\ steps_done' = 0
    /\ used_tools' = FALSE
    /\ tool_calls' = << >>
    /\ messages' = << >>
    /\ last_tool_results' = << >>
    /\ failed_call_signatures' = fresh_failed(failed_call_signatures)
    /\ memory' = IF same THEN memory ELSE << >>
    /\ history' = IF same THEN history ELSE << >>
    /\ reply' = NoReply
    /\ trace' = [NoTrace EXCEPT !.run = trace.run + 1,
                                !.prior_failed = trace.prior_failed \cup
                                   {call_signature(trace.calls[j].call) :
                                      j \in {i \in 1..Len(trace.calls) :
                                               trace.calls[i].outcome = "failure"}},
                                !.prior_rows = trace.prior_rows + Len(last_tool_results)]
    /\ UNCHANGED <<gwvars, rgvars, rtvars, sgvars, stvars>>

\* the steps of one request when the planner returns one of the given steps
\* and the request makes at most cap tool calls
LpNextOver(steps, cap) ==
    \/ Begin
    \/ \E step \in steps : PlanTools(step, cap)
    \/ \E step \in steps : PlanDirect(step)
    \/ \E step \in steps : PlanFinal(step)
    \/ \E o \in ProviderOutcomes : PlanRaises(o)
    \/ \E summary \in Summaries : Summarize(summary)
    \/ \E o \in ProviderOutcomes : SummarizeRaises(o)
    \/ Suppress
    \/ DispatchCall
    \/ DispatchRaises
    \/ Exhausted
    \/ Finish

LpNext == LpNextOver(PlannerSteps(RawContents, CallLists), MaxTotalCalls)

\* ================================================ lazy runtime initialisation
NoRuntime == 0
Starters == 1..NumStarters
UpdateKinds == {"text", "photo"}

\* the gateway after __init__: no runtime, nobody at the lock
RtInit ==
    /\ runtime = NoRuntime
    /\ runtime_lock = << >>
    /\ ipc = [s \in Starters |-> "idle"]
    /\ ikind = [s \in Starters |-> "none"]
    /\ built = 0
    /\ used = [s \in Starters |-> NoRuntime]
    /\ waited = [s \in Starters |-> FALSE]

\* the gateway once a first update has built the runtime
RtReady ==
    /\ runtime = 1
    /\ runtime_lock = << >>
    /\ ipc = [s \in Starters |-> "idle"]
    /\ ikind = [s \in Starters |-> "none"]
    /\ built = 1
    /\ used = [s \in Starters |-> NoRuntime]
    /\ waited = [s \in Starters |-> FALSE]

\* the names of TOOL_DEFINITIONS
TOOL_DEFINITIONS ==
    {"record_expense", "record_expenses_batch", "query_expenses", "get_expense",
     "update_expense", "delete_expense", "summarize_expenses", "analyze_expenses",
     "visualize_expenses", "set_user_config", "get_user_config", "list_user_configs",
     "delete_user_config", "analyze_image", "create_task", "list_tasks", "update_task",
     "delete_task", "get_weather", "google_search", "capture_website_screenshot"}

AllNames == TOOL_DEFINITIONS \cup Undeclared

\* the names build_runtime registers, in order: the routes of ExpenseGateway,
\* then the analytics, config, image, task, weather and web handlers
Registrations_without_weather ==
    <<"record_expense", "record_expenses_batch", "query_expenses", "get_expense",
      "update_expense", "delete_expense", "summarize_expenses",
      "analyze_expenses", "visualize_expenses",
      "set_user_config", "get_user_config", "list_user_configs", "delete_user_config",
      "analyze_image",
      "create_task", "list_tasks", "update_task", "delete_task",
      "google_search", "capture_website_screenshot">>

Registrations ==
    <<"record_expense", "record_expenses_batch", "query_expenses", "get_expense",
      "update_expense", "delete_expense", "summarize_expenses",
      "analyze_expenses", "visualize_expenses",
      "set_user_config", "get_user_config", "list_user_configs", "delete_user_config",
      "analyze_image",
      "create_task", "list_tasks", "update_task", "delete_task",
      "get_weather",
      "google_search", "capture_website_screenshot">>

\* the register_handler calls of build_runtime from the i-th on: the i-th
\* handler is stored under its name, or ValueError ends the wiring
RECURSIVE wire(_, _, _)
wire(h, names, i) ==
    IF i > Len(names) THEN [handlers |-> h, error |-> "none"]
    ELSE IF names[i] \notin TOOL_DEFINITIONS THEN [handlers |-> h, error |-> "ValueError"]
    ELSE wire([h EXCEPT ![names[i]] = i], names, i + 1)

\* registry = ToolRegistry(definitions=TOOL_DEFINITIONS) and its wiring
build_registry == wire([n \in AllNames |-> NoHandler], Registrations, 1)

\* the second `if self.runtime is None`, under the lock
recheck_skipped(rt) == TRUE

recheck(rt) == rt = NoRuntime

\* an update enters on_text_message or on_photo_message: with a runtime it
\* goes on; without one it takes _runtime_lock and calls the builder when the
\* lock is free (acquire does not yield then), and queues at the lock otherwise
Receive(s, kind) ==
    /\ ipc[s] = "idle"
    /\ ikind' = [ikind EXCEPT ![s] = kind]
    /\ IF runtime # NoRuntime
         THEN /\ ipc' = [ipc EXCEPT ![s] = "ready"]
              /\ UNCHANGED <<runtime_lock, waited>>
         ELSE /\ runtime_lock' = Append(runtime_lock, s)
              /\ ipc' = [ipc EXCEPT ![s] = IF runtime_lock = << >> THEN "building" ELSE "waiting"]
              /\ waited' = [waited EXCEPT ![s] = runtime_lock # << >>]
    /\ UNCHANGED <<runtime, built, used>>
    /\ UNCHANGED <<gwvars, lpvars, rgvars, sgvars, stvars>>

\* a queued update gets the lock and looks at self.runtime again
Acquired(s) ==
    /\ ipc[s] = "waiting"
    /\ Head(runtime_lock) = s
    /\ IF recheck(runtime)
         THEN /\ ipc' = [ipc EXCEPT ![s] = "building"]
              /\ UNCHANGED runtime_lock
         ELSE /\ ipc' = [ipc EXCEPT ![s] = "ready"]
              /\ runtime_lock' = Tail(runtime_lock)
    /\ UNCHANGED <<runtime, ikind, built, used, waited>>
    /\ UNCHANGED <<gwvars, lpvars, rgvars, sgvars, stvars>>

\* self.runtime = await self.runtime_builder() returns the runtime with its
\* wired registry; the lock is released
BuildDone(s) ==
    /\ ipc[s] = "building"
    /\ build_registry.error = "none"
    /\ handlers' = build_registry.handlers
    /\ rg' = NoOp
    /\ built' = built + 1
    /\ runtime' = built + 1
    /\ runtime_lock' = Tail(runtime_lock)
    /\ ipc' = [ipc EXCEPT ![s] = "ready"]
    /\ UNCHANGED <<ikind, used, waited>>
    /\ UNCHANGED <<gwvars, lpvars, sgvars, stvars>>

\* runtime_builder raises: the exception leaves `async with` and the handler
BuildRaises(s) ==
    /\ ipc[s] = "building"
    /\ runtime_lock' = Tail(runtime_lock)
    /\ ipc' = [ipc EXCEPT ![s] = "raised"]
    /\ UNCHANGED <<runtime, ikind, built, used, waited>>
    /\ UNCHANGED <<gwvars, lpvars, rgvars, sgvars, stvars>>

\* the handler reads self.runtime for handle_message or handle_image
Use(s) ==
    /\ ipc[s] = "ready"
    /\ used' = [used EXCEPT ![s] = runtime]
    /\ ipc' = [ipc EXCEPT ![s] = "used"]
    /\ UNCHANGED <<runtime, runtime_lock, ikind, built, waited>>
    /\ UNCHANGED <<gwvars, lpvars, rgvars, sgvars, stvars>>

RtNext ==
    \/ \E s \in Starters, kind \in UpdateKinds : Receive(s, kind)
    \/ \E s \in Starters : Acquired(s)
    \/ \E s \in Starters : BuildDone(s)
    \/ \E s \in Starters : BuildRaises(s)
    \/ \E s \in Starters : Use(s)

\* ===================================================== call signatures alone
SigVals == 1..MaxVal

\* dicts over Keys with values in SigVals, in every insertion order
SigArgs ==
    {<< >>}
      \cup {<<[k |-> Keys[i], v |-> x]>> : i \in 1..Len(Keys), x \in SigVals}
      \cup {<<[k |-> Keys[p[1]], v |-> x], [k |-> Keys[p[2]], v |-> y]>> :
               p \in {q \in (1..Len(Keys)) \X (1..Len(Keys)) : q[1] # q[2]},
               x \in SigVals, y \in SigVals}

SigCalls ==
    {[id |-> "s", name |-> n, arguments |-> a] :
       n \in {"record_expense", "visualize_expenses"}, a \in SigArgs}

SgIdle ==
    /\ sig_in = << >>
    /\ sig_out = << >>

SgInit ==
    /\ sig_in \in SigCalls \X SigCalls
    /\ sig_out = << >>

\* _build_call_signature applied to both calls
BuildSignatures ==
    /\ sig_in # << >>
    /\ sig_out = << >>
    /\ sig_out' = <<call_signature(sig_in[1]), call_signature(sig_in[2])>>
    /\ UNCHANGED sig_in
    /\ UNCHANGED <<gwvars, lpvars, rgvars, rtvars, stvars>>

\* ============================================================ InMemoryStore
StoreUsers == {1, 2}

\* the limits get_history is asked with: none, one, the default, the cap, more
Limits == {0, 1, 10, HistoryCap, HistoryCap + 1}

NoGot == [user |-> 0, limit |-> 0, result |-> << >>]

\* InMemoryStore(): no history
StInit ==
    /\ history_map = [u \in StoreUsers |-> << >>]
    /\ got = NoGot

\* the entries of a user are numbered in the order they are appended; user
\* and assistant entries alternate, as handle_message appends them
NextEntry(h) == IF h = << >> THEN 1 ELSE h[Len(h)].content + 1

RoleOf(n) == IF n % 2 = 1 THEN "user" ELSE "assistant"

\* seq[-n:]
slice_last(seq, n) ==
    IF n = 0 \/ n >= Len(seq) THEN seq
    ELSE IF n > 0 THEN SubSeq(seq, Len(seq) - n + 1, Len(seq))
    ELSE SubSeq(seq, 1 - n, Len(seq))

\* append_history(user_id, role, content): append, then keep the last 50
AppendHistory(u) ==
    /\ NextEntry(history_map[u]) <= MaxAppends
    /\ history_map' = [history_map EXCEPT
                         ![u] = append_history(@, RoleOf(NextEntry(@)), NextEntry(@))]
    /\ got' = NoGot
    /\ UNCHANGED <<gwvars, lpvars, rgvars, rtvars, sgvars>>

\* get_history(user_id, limit): history_map[user_id][-limit:]
GetHistory(u, limit) ==
    /\ got' = [user |-> u, limit |-> limit, result |-> slice_last(history_map[u], limit)]
    /\ UNCHANGED history_map
    /\ UNCHANGED <<gwvars, lpvars, rgvars, rtvars, sgvars>>

StNext ==
    \/ \E u \in StoreUsers : AppendHistory(u)
    \/ \E u \in StoreUsers, limit \in Limits : GetHistory(u, limit)

\* ================================================================ specifications
Init == GwInit /\ LpIdle /\ RgBooted /\ RtReady /\ SgIdle /\ StInit

\* the steps of the gateway when at most n text updates arrive and _send_reply
\* ends in one of the given outcomes
GwNext(n, outcomes) ==
    \/ \E h \in 1..n, u \in Users : Arrive(h, u)
    \/ \E h \in Slots : Timeout(h)
    \/ \E h \in Slots, o \in RunOutcomes : TaskEnds(h, o)
    \/ \E h \in Slots : Progress(h, outcomes)

\* the gateway over a transport that accepts every message
Next == GwNext(MaxMsgs, {"ok"})

Spec == Init /\ [][Next]_vars

\* The gateway over a transport on which _send_reply may raise, under fair
\* scheduling: the event loop runs every ready coroutine segment and every
\* awaited send returns or raises. Nothing is assumed about arrivals, about
\* the budget timer, or about handle_message terminating.
LiveNext == GwNext(MaxLiveMsgs, SendOutcomes)

FairSpec == Init /\ [][LiveNext]_vars /\ \A h \in Slots : WF_vars(Progress(h, SendOutcomes))

\* one request through the agent loop
LoopInit == GwInit /\ LpInit /\ RgBooted /\ RtReady /\ SgIdle /\ StInit

LoopSpec == LoopInit /\ [][LpNext]_vars

\* the tool calls of the requests whose reply is compared with the tool
\* results: every tool the summary knows, one tool it does not know, and
\* deep_web_search, which has no definition
ReplyArgs(n) == <<[k |-> "a", v |-> n]>>

ReplyCalls ==
    { parse_call("r", n, json_dumps(ReplyArgs(1))) :
        n \in {"record_expenses_batch", "record_expense", "visualize_expenses",
               "analyze_expenses", "deep_web_search", "google_search",
               "capture_website_screenshot", "get_weather"} }
      \cup { parse_call("r", n, json_dumps(ReplyArgs(2))) :
               n \in {"record_expense", "visualize_expenses", "capture_website_screenshot"} }

\* one call in each step
ReplyCallLists == { <<c>> : c \in ReplyCalls }

ReplyNext == LpNextOver(PlannerSteps({<< >>}, ReplyCallLists), MaxRows)

ReplySpec == LoopInit /\ [][ReplyNext]_vars

\* requests one after another, the later ones through AgentLoopEngine.run;
\* each step of the planner carries one call
RunsCalls ==
    { parse_call("q", n, json_dumps(ReplyArgs(1))) :
        n \in {"record_expense", "visualize_expenses"} }

RunsNext ==
    \/ LpNextOver(PlannerSteps({<< >>}, { <<c>> : c \in RunsCalls }), MaxRows)
    \/ \E n \in 1..MaxSteps, same \in BOOLEAN : NextRequest("run", n, same)

RunsSpec == LoopInit /\ [][RunsNext]_vars

\* requests whose tool calls come with every kind of raw arguments
EchoCalls ==
    { parse_call("e1", "record_expense", Raw(TRUE, <<[k |-> "a", v |-> 1], [k |-> "b", v |-> 1]>>)),
      parse_call("e2", "record_expense", GarbageRaw),
      parse_call("e3", "visualize_expenses", EmptyRaw),
      parse_call("e4", "visualize_expenses",
                 Raw(FALSE, <<[k |-> "b", v |-> 1], [k |-> "a", v |-> 1]>>)) }

EchoCallLists == UNION { [1..n -> EchoCalls] : n \in 0..MaxCalls }

EchoNext == LpNextOver(PlannerSteps({<< >>}, EchoCallLists), MaxTotalCalls)

EchoSpec == LoopInit /\ [][EchoNext]_vars

\* the registry from its construction on
RegInit == GwInit /\ LpIdle /\ RgInit /\ RtInit /\ SgIdle /\ StInit

RegSpec == RegInit /\ [][RgNext]_vars

\* the first updates of a gateway, text and photo, from its construction on
BootSpec == RegInit /\ [][RtNext]_vars

\* the in-memory store under append_history and get_history calls
StoreSpec == Init /\ [][StNext]_vars

\* _build_call_signature over pairs of tool calls
SigInit == GwInit /\ LpIdle /\ RgBooted /\ RtReady /\ SgInit /\ StInit

SigSpec == SigInit /\ [][BuildSignatures]_vars

\* ------------------------------------------------------------ properties
Late(h) == hist[h].budget = "expired"

\* C1: in every reachable state at most one handle_message run of a given
\* user is executing (started and not yet completed).
PerUserSerialization == \A u \in Users : Cardinality(Running(u)) <= 1

TimeoutNeverCancels ==
    [][\A h \in Slots : task[h] = "running" => task'[h] \in {"running", "result", "exception"}]_vars

CompletedAfterTimeout ==
    \E h \in Slots : Late(h) /\ task[h] \in {"result", "exception"}

\* C4: a message that arrives while a run of its user has not completed
\* never starts a run of its own.
BusyArrivalDropped == \A h \in Slots : hist[h].arrivedBusy => task[h] = "none"

InterimAtMostOnce ==
    \A h \in Slots : /\ out[h].interim <= 1
                     /\ out[h].interim = 1 => Late(h)
                     /\ hist[h].budget = "within" => out[h].interim = 0 /\ pc[h] # "interim"

InterimSentForLateRun ==
    \E h \in Slots : out[h].interim = 1 /\ Late(h)

\* C8: users are independent: a rejection is always caused by a run of the
\* same user, a user's lock queue and pending entry only ever hold that
\* user's own updates, and an entry is cleared only by a step of an update
\* of that user.
UsersIndependent ==
    /\ [](\A h \in Slots : hist[h].rejectedBy # NoTask => huser[hist[h].rejectedBy] = huser[h])
    /\ [](\A k \in Users : pending_tasks[k] # NoTask => huser[pending_tasks[k]] = k)
    /\ [](\A k \in Users : \A i \in 1..Len(user_locks[k]) : huser[user_locks[k][i]] = k)
    /\ [][\A k \in Users : (pending_tasks[k] # NoTask /\ pending_tasks'[k] = NoTask)
            => \E h \in Slots : huser[h] = k /\ (pc[h] # pc'[h] \/ dpc[h] # dpc'[h])]_vars

BothUsersInFlight ==
    \E a, b \in Slots : /\ huser[a] = 1 /\ huser[b] = 2
                        /\ pc[a] = "waiting" /\ task[a] = "running"
                        /\ pc[b] = "waiting" /\ task[b] = "running"

\* the request has left the loop
LoopOver == lpc \in {"loop_returned", "returned"}

AllStepsCallTools == \A j \in 1..Len(trace.steps) : trace.steps[j].tool_calls # << >>

\* C9: when every planner step carries at least one tool call, the loop asks
\* next_step exactly max_steps times, never asks summarize_after_tools, and
\* ends by returning an AgentReply; next_step is never asked more often.
StepBound ==
    /\ Len(trace.steps) <= max_steps
    /\ (LoopOver /\ AllStepsCallTools)
         => /\ Len(trace.steps) = max_steps
            /\ trace.summarize = 0
            /\ reply # NoReply

ExhaustedAfterTwoToolSteps ==
    /\ lpc = "returned" /\ reply # NoReply
    /\ max_steps >= 2 /\ Len(trace.steps) = max_steps /\ AllStepsCallTools

\* C10: when the first planner step carries no tool call, handle_message
\* returns the step's content as the reply text (the default greeting when
\* the content is empty) with no image paths, after one planner step, without
\* any tool dispatch and without asking for a summary.
NoToolPath ==
    (entry = "handle_message" /\ lpc = "returned"
       /\ trace.steps # << >> /\ trace.steps[1].tool_calls = << >>)
      => /\ reply = [text |-> IF trace.steps[1].content = << >>
                                THEN Greeting ELSE trace.steps[1].content,
                     image_paths |-> << >>]
         /\ Len(trace.steps) = 1
         /\ trace.dispatched = << >> /\ last_tool_results = << >>
         /\ trace.summarize = 0

DirectAnswerReturned ==
    /\ entry = "handle_message" /\ lpc = "returned"
    /\ trace.steps = <<[content |-> <<"a">>, tool_calls |-> << >>]>>
    /\ reply.text = <<"a">>

\* names that have a handler
Wired == {n \in ToolNames : handlers[n] # NoHandler}

\* C17: register_handler with a name that has no definition ends with an
\* error and leaves the name-to-handler mapping as it was; hence only declared
\* names ever have a handler.
RegisterRejectsUndeclared ==
    /\ [](Wired \subseteq Declared)
    /\ [][(rg'.op = "register" /\ rg'.name \notin Declared)
            => (rg'.outcome = "ValueError" /\ handlers' = handlers)]_vars

UndeclaredRegistrationRefused ==
    /\ rg.op = "register" /\ rg.name \in Undeclared /\ rg.outcome = "ValueError"
    /\ Wired # {} /\ Wired \subseteq Declared

\* C18: call for a name that has no handler, declared or not, returns the
\* "not registered" result with success=false, raises nothing and invokes no
\* handler.
UnwiredCallReturnsFailure ==
    (rg.op = "call" /\ handlers[rg.name] = NoHandler)
      => /\ rg.outcome = "returned"
         /\ rg.result = "not_registered"
         /\ rg.invoked = NoHandler

UnwiredCallsAnswered ==
    /\ rg.op = "call" /\ rg.name \in Undeclared /\ rg.result = "not_registered"
    /\ \E n \in Declared : handlers[n] = NoHandler
    /\ Wired # {}

\* the same tool name and the same arguments (equal as dicts)
SameCall(c, d) ==
    /\ c.name = d.name
    /\ {c.arguments[j] : j \in 1..Len(c.arguments)} = {d.arguments[j] : j \in 1..Len(d.arguments)}

\* the j-th processed call repeats a call the registry answered with a failure
FailedBefore(j) ==
    \E i \in 1..(j - 1) : /\ trace.calls[i].via = "registry"
                          /\ trace.calls[i].outcome = "failure"
                          /\ SameCall(trace.calls[i].call, trace.calls[j].call)

SuppressionRow(name) ==
    [tool_name |-> name, success |-> FALSE, message |-> "repeated", data |-> NoData]

\* in a request entering through e, a call that repeats a failed call is not
\* handed to the registry and is answered with the suppression result
Dedup(e) ==
    entry = e =>
      \A j \in 1..Len(trace.calls) :
         FailedBefore(j) => /\ trace.calls[j].via = "suppressed"
                            /\ last_tool_results[j] = SuppressionRow(trace.calls[j].call.name)

\* C11: in AgentLoopEngine.run, once a call has been dispatched and has
\* failed, every later request of the same tool with the same arguments in
\* that run is answered with the synthesized suppression result and does not
\* reach the registry, so the handler runs once for that signature.
DedupInEngineRun == Dedup("run")

RepeatedFailureSuppressed ==
    /\ entry = "run"
    /\ \E i, j \in 1..Len(trace.calls) :
         /\ i < j
         /\ trace.calls[i].via = "registry" /\ trace.calls[i].outcome = "failure"
         /\ trace.calls[j].via = "suppressed"
         /\ trace.calls[i].call.arguments # trace.calls[j].call.arguments
         /\ j <= Len(last_tool_results)

\* C12: in a request entering through AgentRuntime.handle_message, a call
\* that repeats a failed call of that request is not handed to the registry
\* again.
DedupOnControllerPath == Dedup("handle_message")

\* C13: in AgentLoopEngine.run, a call that does not repeat a failed call (in
\* particular one to a tool that failed with other arguments) is handed to
\* the registry and not answered with the suppression result.
DifferentArgumentsDispatched ==
    entry = "run" =>
      \A j \in 1..Len(trace.calls) : ~FailedBefore(j) => trace.calls[j].via = "registry"

OtherArgumentsDispatchedAfterFailure ==
    /\ entry = "run"
    /\ \E i, j \in 1..Len(trace.calls) :
         /\ i < j
         /\ trace.calls[i].via = "registry" /\ trace.calls[i].outcome = "failure"
         /\ trace.calls[j].call.name = trace.calls[i].call.name
         /\ ~SameCall(trace.calls[i].call, trace.calls[j].call)
         /\ trace.calls[j].via = "registry" /\ trace.calls[j].outcome = "success"

\* position of the first occurrence of x in s
FirstAt(s, x) == CHOOSE i \in 1..Len(s) : s[i] = x /\ \A k \in 1..(i - 1) : s[k] # x

\* C14: the image_paths of a returned reply hold exactly the paths the
\* request's tool results surfaced, each once, ordered by first occurrence.
ImagePathsAggregated ==
    LoopOver =>
      LET P == reply.image_paths
          S == all_paths(last_tool_results)
      IN  /\ \A i, j \in 1..Len(P) : i # j => P[i] # P[j]
          /\ {P[i] : i \in 1..Len(P)} = {S[i] : i \in 1..Len(S)}
          /\ \A i, j \in 1..Len(P) : i < j => FirstAt(S, P[i]) < FirstAt(S, P[j])

PathsOfTwoResultsMerged ==
    /\ lpc = "returned"
    /\ Len(last_tool_results) = 2
    /\ Len(all_paths(last_tool_results)) = 5
    /\ reply.image_paths = <<"x.png", "y.png", "z.png">>

\* the priority order of the summary
Priority ==
    <<"record_expenses_batch", "record_expense", "visualize_expenses", "analyze_expenses",
      "deep_web_search", "google_search", "capture_website_screenshot">>

\* the summary the result list calls for
ExpectedSummary(rows) ==
    LET ok == SelectSeq(rows, LAMBDA r : r.success)
        present == {n \in 1..Len(Priority) :
                      \E j \in 1..Len(ok) : ok[j].tool_name = Priority[n]}
    IN  IF ok = << >> THEN <<"TOOLS_FAILED">>
        ELSE IF present = {} THEN <<"DONE">>
        ELSE LET n == CHOOSE m \in present : \A k \in present : m <= k
                 at == {j \in 1..Len(ok) : ok[j].tool_name = Priority[n]}
                 j == CHOOSE m \in at : \A k \in at : k <= m
             IN  <<Priority[n], ok[j].data>>

\* the reply text is the fallback summary
FallbackUsed ==
    /\ LoopOver
    /\ last_tool_results # << >>
    /\ trace.summarize = 0 \/ trace.summary = << >>

\* C15: a reply built without a narrative summary carries the summary of the
\* most recent successful result of the first category, in the fixed priority
\* order, that has one; the generic acknowledgement if no category has one;
\* the failure notice if nothing succeeded. Failed results play no part.
FallbackSummaryByPriority ==
    FallbackUsed => reply.text = ExpectedSummary(last_tool_results)

LatestOfTopCategorySummarized ==
    /\ FallbackUsed
    /\ entry = "handle_message"
    /\ \E i, j \in 1..Len(last_tool_results) :
         /\ i # j
         /\ last_tool_results[i].tool_name = "capture_website_screenshot"
         /\ last_tool_results[i].success
         /\ last_tool_results[j].tool_name = "visualize_expenses"
         /\ last_tool_results[j].success
         /\ reply.text = <<"visualize_expenses", last_tool_results[j].data>>

\* C16: every tool message of the transcript follows an assistant message,
\* and the latest assistant message before it declares its tool_call_id.
TranscriptCorrelated ==
    \A j \in 1..Len(messages) :
       messages[j].role = "tool" =>
         LET before == {i \in 1..(j - 1) : messages[i].role = "assistant"}
         IN  /\ before # {}
             /\ LET i == CHOOSE m \in before : \A k \in before : k <= m
                 IN  \E n \in 1..Len(messages[i].ids) : messages[i].ids[n] = messages[j].ids[1]

TwoStepsCorrelated ==
    \E i, j \in 1..Len(messages) :
       /\ i + 1 < j
       /\ messages[i].role = "assistant" /\ messages[i + 1].role = "tool"
       /\ messages[j].role = "assistant" /\ j < Len(messages)
       /\ messages[j + 1].role = "tool"
       /\ messages[i].ids # messages[j].ids

\* C19: no exception of a tool handler reaches the agent loop: the request
\* never ends with an exception raised by tool_registry.call.
ToolErrorsAreData == lpc # "tool_raised"

\* C20: no exception leaves next_step or summarize_after_tools: the request
\* never ends with an exception raised by the planner.
PlannerNeverRaises == lpc # "planner_raised"

\* the run of h ended with a reply / with an exception while its handler was
\* still waiting for it
RepliedInBudget(h) == hist[h].budget = "within" /\ task[h] = "result"

FailedInBudget(h) == hist[h].budget = "within" /\ task[h] = "exception"

NoOutOfBand(h) ==
    /\ ~callbacks[h] /\ dpc[h] = "none"
    /\ out[h].interim = 0 /\ out[h].oobReply = 0 /\ out[h].oobFail = 0

\* C21: a run that returns its reply within the budget is answered on the
\* synchronous path only: no callback, no interim notice, no out-of-band
\* message; and while pending_tasks still holds the run its handler holds the
\* user's lock (the entry is cleared before the lock is released).
InBudgetReplySynchronous ==
    \A h \in Slots :
       RepliedInBudget(h) =>
         /\ NoOutOfBand(h)
         /\ out[h].error = 0
         /\ pc[h] = "done" => out[h].reply = 1
         /\ pending_tasks[user_id(huser[h])] = h
              => /\ user_locks[user_id(huser[h])] # << >>
                 /\ Head(user_locks[user_id(huser[h])]) = h

InBudgetReplySent ==
    \E h \in Slots : /\ RepliedInBudget(h) /\ pc[h] = "done" /\ out[h].reply = 1
                      /\ pending_tasks[user_id(huser[h])] = NoTask
                      /\ user_locks[user_id(huser[h])] = << >>

InterimBeforeFinal ==
    \A h \in Slots :
       (dpc[h] # "none" \/ out[h].oobReply > 0 \/ out[h].oobFail > 0) => out[h].interim = 1

FinalAfterInterim ==
    \E h \in Slots : out[h].interim = 1 /\ out[h].oobFail = 1 /\ dpc[h] = "done"

\* C24: a run that is still executing stays its user's pending entry: the
\* background delivery of an earlier run does not remove it.
RunningRunKeepsEntry ==
    \A h \in Slots : task[h] = "running" => pending_tasks[user_id(huser[h])] = h

ReplyOrFailureNotice ==
    \A h \in Slots : ~(out[h].oobReply >= 1 /\ out[h].oobFail >= 1)

\* C27: runtime_builder completes at most once; a handler that went past the
\* initialisation found self.runtime set, and all handlers go on with the same
\* instance; a builder that raises leaves self.runtime unset, and an update
\* that then arrives at the free lock calls the builder again.
LazyInitOnce ==
    /\ [](/\ built <= 1
          /\ \A s \in Starters :
                /\ ipc[s] \in {"ready", "used"} => runtime # NoRuntime
                /\ ipc[s] = "used" => used[s] = runtime
                /\ ipc[s] = "building" => (runtime = NoRuntime /\ Head(runtime_lock) = s)
          /\ \A s, t \in Starters :
                (ipc[s] = "building" /\ ipc[t] = "building") => s = t)
    /\ [][\A s \in Starters :
            (ipc[s] = "building" /\ ipc'[s] = "raised") => runtime' = NoRuntime]_vars
    /\ [][\A s \in Starters :
            (ipc[s] = "idle" /\ ipc'[s] # "idle" /\ runtime = NoRuntime /\ runtime_lock = << >>)
              => ipc'[s] = "building"]_vars

RetryBuiltForTextAndPhoto ==
    \E s, t, u \in Starters :
       /\ ipc[s] = "raised"
       /\ ipc[t] = "used" /\ ikind[t] = "text"
       /\ ipc[u] = "used" /\ ikind[u] = "photo"
       /\ used[t] = used[u] /\ built = 1
       /\ waited[t] /\ waited[u]

\* C28: two tool calls get the same signature exactly when they have the same
\* tool name and the same arguments as mappings, whatever the order of the keys.
SignatureIdentifiesCall ==
    sig_out # << >> => (SameCall(sig_in[1], sig_in[2]) <=> sig_out[1] = sig_out[2])

ReorderedCallsSameSignature ==
    /\ sig_out # << >>
    /\ sig_in[1] # sig_in[2]
    /\ SameCall(sig_in[1], sig_in[2])
    /\ sig_out[1] = sig_out[2]

\* the planner was asked max_steps times and every step carried tool calls
BudgetExhausted == LoopOver /\ AllStepsCallTools /\ Len(trace.steps) = max_steps

\* C29: when the step budget is exhausted the reply text is the templated
\* summary of the collected results if there is at least one, and the fixed
\* "too many steps" notice if there is none; summarize_after_tools is not asked.
ExhaustionReply ==
    BudgetExhausted =>
      /\ trace.summarize = 0
      /\ reply.text = IF last_tool_results # << >>
                         THEN ExpectedSummary(last_tool_results) ELSE TooManySteps

ExhaustedWithSummary ==
    /\ BudgetExhausted /\ lpc = "loop_returned"
    /\ max_steps = 2
    /\ Len(last_tool_results) >= 2
    /\ \E j \in 1..Len(last_tool_results) : last_tool_results[j].success
    /\ reply.text = ExpectedSummary(last_tool_results)
    /\ reply.text # TooManySteps

\* a step without tool calls ended a request that had called tools before
TerminalAfterTools ==
    /\ LoopOver /\ used_tools
    /\ trace.steps # << >>
    /\ trace.steps[Len(trace.steps)].tool_calls = << >>

\* C30: when a step without tool calls follows tool use, summarize_after_tools
\* is asked exactly once and the reply text is its summary if that is not
\* empty and the templated summary of the results otherwise; the content of
\* the step itself is not the source of the reply.
TerminalStepSummarized ==
    TerminalAfterTools =>
      /\ trace.summarize = 1
      /\ reply.text = IF trace.summary # << >>
                         THEN trace.summary ELSE ExpectedSummary(last_tool_results)

SummaryReplacesStepContent ==
    /\ TerminalAfterTools /\ lpc = "returned"
    /\ trace.summarize = 1
    /\ trace.steps[Len(trace.steps)].content # << >>
    /\ trace.summary # << >>
    /\ reply.text = trace.summary
    /\ reply.text # trace.steps[Len(trace.steps)].content

\* the categories of a list
Categories(mem) == {mem[j] : j \in 1..Len(mem)}

\* the result row a step of the loop has just recorded
NewRow == last_tool_results'[Len(last_tool_results')]

RowRecorded == Len(last_tool_results') = Len(last_tool_results) + 1

\* the row brings a category the list does not hold yet
Remembers(row, mem) ==
    row.success /\ row.data.category # "" /\ row.data.category \notin Categories(mem)

\* C31: frequent_categories changes only by appending the category of a
\* result just recorded with success, a non-empty category and a category not
\* yet in the list, and every such result appends it; the list never holds a
\* category twice and never loses an entry.
CategoriesRemembered ==
    /\ [](\A i, j \in 1..Len(memory) : memory[i] = memory[j] => i = j)
    /\ [][/\ memory' # memory => RowRecorded
          /\ RowRecorded =>
                memory' = IF Remembers(NewRow, memory)
                            THEN Append(memory, NewRow.data.category) ELSE memory]_vars

TwoCategoriesOneRepeated ==
    /\ memory = <<"food", "rent">>
    /\ Len(last_tool_results) = 3
    /\ \A j \in 1..3 : last_tool_results[j].success /\ last_tool_results[j].data.category # ""

\* how often a call of the memory store was made
Count(op) == Cardinality({j \in 1..Len(trace.store) : trace.store[j] = op})

\* the tool calls processed so far: answered by the registry or suppressed
Processed == {j \in 1..Len(trace.calls) : trace.calls[j].outcome # "raised"}

\* C32: handle_message reads memory and history once, first; appends the
\* user's text to the history before the first planner step; calls save_memory
\* once for every processed tool call and only between those two appends; and
\* appends the reply text to the history once, after the loop has returned the
\* reply and before handle_message returns.
StoreAccessOrder ==
    (entry = "handle_message" /\ lpc \notin {"idle", "start"}) =>
      /\ Len(trace.store) >= 3
      /\ SubSeq(trace.store, 1, 3) = <<"get_memory", "get_history", "append_user">>
      /\ Count("get_memory") = 1 /\ Count("get_history") = 1 /\ Count("append_user") = 1
      /\ history[1] = [role |-> "user", content |-> <<"text">>]
      /\ Count("save_memory") = Cardinality(Processed)
      /\ Count("append_assistant") = IF lpc = "returned" THEN 1 ELSE 0
      /\ lpc = "returned" =>
            /\ trace.store[Len(trace.store)] = "append_assistant"
            /\ history = <<[role |-> "user", content |-> <<"text">>],
                           [role |-> "assistant", content |-> reply.text]>>
      /\ lpc # "returned" => Len(history) = 1

StoreWrittenPerCall ==
    /\ entry = "handle_message" /\ lpc = "returned"
    /\ \E j \in 1..Len(trace.calls) : trace.calls[j].outcome = "failure"
    /\ trace.store = <<"get_memory", "get_history", "append_user",
                       "save_memory", "save_memory", "append_assistant">>

\* the signatures of the calls the registry answered with a failure
FailedSignatures ==
    {call_signature(trace.calls[j].call) :
       j \in {i \in 1..Len(trace.calls) : /\ trace.calls[i].via = "registry"
                                          /\ trace.calls[i].outcome = "failure"}}

\* C33: in AgentLoopEngine.run the failed-signature set holds exactly the
\* signatures of the calls that went to the registry and came back without
\* success; it never shrinks; a call is suppressed only when its signature is
\* in the set, so a call that succeeded is dispatched again when repeated.
FailedSetExact ==
    /\ [](entry = "run" => failed_call_signatures = FailedSignatures)
    /\ [][failed_call_signatures \subseteq failed_call_signatures']_vars
    /\ [](\A j \in 1..Len(trace.calls) :
            trace.calls[j].via = "suppressed" => FailedBefore(j))

SuccessfulCallRepeated ==
    /\ entry = "run"
    /\ \E i, j \in 1..Len(trace.calls) :
         /\ i < j
         /\ SameCall(trace.calls[i].call, trace.calls[j].call)
         /\ trace.calls[i].via = "registry" /\ trace.calls[i].outcome = "success"
         /\ trace.calls[j].via = "registry"
    /\ \E j \in 1..Len(trace.calls) : trace.calls[j].via = "suppressed"
    /\ Cardinality(failed_call_signatures) = 1

\* the tool calls of the steps so far, in the order the planner gave them
RECURSIVE Flatten(_)
Flatten(steps) ==
    IF steps = << >> THEN << >> ELSE Head(steps).tool_calls \o Flatten(Tail(steps))

Requested == Flatten(trace.steps)

ToolMessages == SelectSeq(messages, LAMBDA m : m.role = "tool")

\* C34: the calls of a step are processed in request order, one per step of
\* the loop; each processed call, answered with success, with failure or
\* suppressed, leaves one tool message carrying its id and one result row
\* carrying its name; whenever no call of a step is outstanding, the tool
\* messages, the result rows and the requested calls are equally many.
OneRecordPerCall ==
    /\ [](/\ Len(ToolMessages) = Len(last_tool_results)
          /\ Len(last_tool_results) + Len(tool_calls) = Len(Requested)
          /\ Len(last_tool_results) = Cardinality(Processed)
          /\ \A j \in 1..Len(last_tool_results) :
                /\ ToolMessages[j].ids = <<Requested[j].id>>
                /\ ToolMessages[j].content
                     = <<last_tool_results[j].success, last_tool_results[j].message>>
                /\ last_tool_results[j].tool_name = Requested[j].name
          /\ lpc \in {"planning", "summarizing", "loop_returned", "returned"}
                => tool_calls = << >>)
    /\ [][Len(last_tool_results') \in {Len(last_tool_results), Len(last_tool_results) + 1}]_vars

ThreeOutcomesRecorded ==
    /\ lpc = "returned"
    /\ Len(Requested) = 3 /\ Len(ToolMessages) = 3 /\ Len(last_tool_results) = 3
    /\ \E i, j, k \in 1..3 :
         /\ trace.calls[i].via = "registry" /\ trace.calls[i].outcome = "success"
         /\ trace.calls[j].via = "registry" /\ trace.calls[j].outcome = "failure"
         /\ trace.calls[k].via = "suppressed"

\* C35: every request starts the loop with an empty failed-signature set, an
\* empty transcript, no tool used and no result row; a call is suppressed only
\* for a failure of the same request, so a call that failed in an earlier
\* request goes to the registry again; the reply of a request is built from
\* the rows of that request alone.
LoopStateRunLocal ==
    /\ lpc = "start" =>
         /\ failed_call_signatures = {} /\ messages = << >>
         /\ ~used_tools /\ last_tool_results = << >>
    /\ entry = "run" => failed_call_signatures = FailedSignatures
    /\ \A j \in 1..Len(trace.calls) : trace.calls[j].via = "suppressed" => FailedBefore(j)
    /\ Len(ToolMessages) = Len(last_tool_results)
    /\ Len(last_tool_results) = Cardinality(Processed)
    /\ (LoopOver /\ last_tool_results # << >>) =>
         /\ reply.image_paths = collect_image_paths(last_tool_results)
         /\ (trace.summarize = 0 \/ trace.summary = << >>)
              => reply.text = ExpectedSummary(last_tool_results)
    /\ (LoopOver /\ last_tool_results = << >>) => reply.image_paths = << >>

EarlierFailureDispatchedAgain ==
    /\ trace.run = 2 /\ entry = "run" /\ lpc = "returned"
    /\ trace.prior_rows > 0
    /\ Len(trace.calls) = 1
    /\ call_signature(trace.calls[1].call) \in trace.prior_failed
    /\ trace.calls[1].via = "registry" /\ trace.calls[1].outcome = "success"
    /\ Len(last_tool_results) = 1

\* the steps that carried tool calls, and the assistant messages recorded
ToolSteps == SelectSeq(trace.steps, LAMBDA st : st.tool_calls # << >>)

AssistantMessages == SelectSeq(messages, LAMBDA m : m.role = "assistant")

\* C36: the assistant message recorded for a step lists the step's tool calls
\* in the planner's order, each with the id, the name and the raw arguments
\* text the planner gave for it, whatever that text is.
RawArgumentsEchoed ==
    /\ Len(AssistantMessages) = Len(ToolSteps)
    /\ \A n \in 1..Len(ToolSteps) :
         /\ Len(AssistantMessages[n].tool_calls) = Len(ToolSteps[n].tool_calls)
         /\ \A j \in 1..Len(ToolSteps[n].tool_calls) :
              AssistantMessages[n].tool_calls[j]
                = [id |-> ToolSteps[n].tool_calls[j].id,
                   name |-> ToolSteps[n].tool_calls[j].name,
                   arguments |-> ToolSteps[n].tool_calls[j].raw_arguments]

PaddedAndGarbageEchoed ==
    /\ Len(AssistantMessages) = 1
    /\ Len(AssistantMessages[1].tool_calls) = 2
    /\ AssistantMessages[1].tool_calls[1].arguments = GarbageRaw
    /\ AssistantMessages[1].tool_calls[2].arguments.pad
    /\ AssistantMessages[1].tool_calls[2].arguments
         # json_dumps(ToolSteps[1].tool_calls[2].arguments)
    /\ lpc = "returned"

IsPrefix(a, b) == Len(a) <= Len(b) /\ a = SubSeq(b, 1, Len(a))

\* the roles of the messages the steps add: assistant, then one tool per call
RECURSIVE Roles(_)
Roles(steps) ==
    IF steps = << >> THEN << >>
    ELSE <<"assistant">> \o [j \in 1..Len(Head(steps).tool_calls) |-> "tool"]
           \o Roles(Tail(steps))

Seed == <<"system", "user">>

RolesOf(msgs) == [j \in 1..Len(msgs) |-> msgs[j].role]

\* C37: the transcript starts with the system and the user message; a step
\* with tool calls adds its assistant message and then one tool message per
\* call; every step of the loop leaves the messages already there in place;
\* every next_step was handed the whole transcript as it stood.
TranscriptAppendOnly ==
    /\ [](lpc \notin {"idle", "start"} =>
            /\ IsPrefix(RolesOf(messages), Seed \o Roles(ToolSteps))
            /\ Len(messages) + Len(tool_calls) = 2 + Len(Roles(ToolSteps))
            /\ \A n \in 1..Len(trace.seen) :
                  /\ IsPrefix(trace.seen[n], messages)
                  /\ RolesOf(trace.seen[n])
                       = Seed \o Roles(SelectSeq(SubSeq(trace.steps, 1, n - 1),
                                                 LAMBDA st : st.tool_calls # << >>)))
    /\ [][lpc \notin {"idle", "start"} => IsPrefix(messages, messages')]_vars

SecondStepSawFirst ==
    /\ lpc = "returned"
    /\ Len(trace.seen) = 2
    /\ Len(trace.seen[1]) = 2
    /\ Len(trace.seen[2]) = 5
    /\ Len(messages) = 7
    /\ IsPrefix(trace.seen[2], messages)

\* the j-th processed call names a tool without a handler
Unwired(j) == handlers[trace.calls[j].call.name] = NoHandler

\* C38: in AgentLoopEngine.run a call of a tool without a handler is answered
\* like a failed call: the registry's "not registered" result is recorded as
\* a row and a tool message with success=false, the signature is in the
\* failed set, a repeat of the call is suppressed and not handed to the
\* registry, and the call never ends the run with an exception.
UnwiredToolIsFailure ==
    entry = "run" =>
      \A j \in 1..Len(trace.calls) :
         Unwired(j) =>
           /\ trace.calls[j].outcome = "failure"
           /\ ~last_tool_results[j].success
           /\ ToolMessages[j].content = <<FALSE, last_tool_results[j].message>>
           /\ call_signature(trace.calls[j].call) \in failed_call_signatures
           /\ IF \E i \in 1..(j - 1) : SameCall(trace.calls[i].call, trace.calls[j].call)
                THEN /\ trace.calls[j].via = "suppressed"
                     /\ last_tool_results[j] = [tool_name |-> trace.calls[j].call.name,
                                                success |-> FALSE, message |-> "repeated",
                                                data |-> NoData]
                ELSE /\ trace.calls[j].via = "registry"
                     /\ last_tool_results[j].message = "not_registered"
           /\ Cardinality({i \in 1..Len(trace.dispatched) :
                             SameCall(trace.dispatched[i], trace.calls[j].call)}) = 1

UnwiredRepeatSuppressed ==
    /\ entry = "run" /\ lpc = "returned"
    /\ Len(trace.calls) = 2
    /\ trace.calls[1].call.name = "deep_web_search" /\ trace.calls[1].via = "registry"
    /\ trace.calls[2].call.name = "deep_web_search" /\ trace.calls[2].via = "suppressed"
    /\ Len(trace.dispatched) = 1
    /\ reply.text = <<"TOOLS_FAILED">>

\* C39: none of build_runtime's register_handler calls is refused, and in the
\* runtime it returns every tool of TOOL_DEFINITIONS has a handler, so that a
\* call of a declared tool is never answered "not registered"; names without
\* a definition have no handler.
BootstrapWiringTotal ==
    /\ build_registry.error = "none"
    /\ \A i \in 1..Len(Registrations) : Registrations[i] \in TOOL_DEFINITIONS
    /\ runtime # NoRuntime =>
         /\ DOMAIN handlers = AllNames
         /\ \A n \in TOOL_DEFINITIONS :
              /\ handlers[n] # NoHandler
              /\ \A o \in HandlerOutcomes : registry_call(handlers, n, o).result # "not_registered"
         /\ \A n \in Undeclared :
              registry_call(handlers, n, "success").result = "not_registered"

AllDeclaredToolsWired ==
    /\ runtime # NoRuntime /\ built = 1
    /\ \E s \in Starters : ipc[s] = "used"
    /\ Cardinality({n \in DOMAIN handlers : handlers[n] # NoHandler}) = 21
    /\ Cardinality(TOOL_DEFINITIONS) = 21

Min(a, b) == IF a <= b THEN a ELSE b

\* the entries appended for a user so far
Appended(u) == NextEntry(history_map[u]) - 1

\* the stored history is the run of the most recent entries, oldest first
MostRecent(h, total) ==
    \A j \in 1..Len(h) : h[j] = [role |-> RoleOf(total - Len(h) + j),
                                  content |-> total - Len(h) + j]

====
